---- MODULE Spec2Model ----
(***************************************************************************)
(* The bytecode virtual machine of sexlang (src/vm/vm.go) and the callers  *)
(* that inspect it after Run.                                              *)
(*                                                                         *)
(* A VM owns an instruction stream (bytes), a constant pool, a fixed-size  *)
(* operand stack and a stack pointer.  Run decodes one opcode per loop     *)
(* iteration; every action below is one iteration of that loop, with all   *)
(* the helper calls it makes.  A Go runtime panic (index out of range,     *)
(* integer divide by zero, nil dereference) ends the run in pc = "panic".  *)
(***************************************************************************)
EXTENDS Integers, Sequences, FiniteSets, TLC

(***************************************************************************)
(* Bounds.  The source's StackSize is 2048 and its integers are 64 bits    *)
(* wide; the model keeps both as parameters and explores small ones.       *)
(***************************************************************************)
StackSize == 2
IntWidth == 3
MaxCode == 3
MaxLines == 3

Modulus == 2 ^ IntWidth
MinInt == -(2 ^ (IntWidth - 1))
MaxInt == (2 ^ (IntWidth - 1)) - 1
IntRange == MinInt..MaxInt

(***************************************************************************)
(* Opcodes (package code, one byte each).                                  *)
(***************************************************************************)
OpConstant == 0
OpAdd == 1
OpPop == 2
OpSub == 3
OpMul == 4
OpDiv == 5
OpTrue == 6
OpFalse == 7
OpEqual == 8
OpNotEqual == 9
OpGreaterThan == 10
OpMinus == 11
OpBang == 12
OpUnhandled == 13

ArithOps == {OpAdd, OpSub, OpMul, OpDiv}
CompareOps == {OpEqual, OpNotEqual, OpGreaterThan}
HandledOps == {OpConstant, OpPop, OpTrue, OpFalse, OpMinus, OpBang}
                  \cup ArithOps \cup CompareOps
Bytes == 0..OpUnhandled

(***************************************************************************)
(* Objects.  An object.Object held in an interface is a pointer: addr is   *)
(* the pointer, kind is what Type() returns, val the payload.  The zero    *)
(* interface value (nil) has addr 0.  True and False are the two package   *)
(* level singletons.                                                       *)
(***************************************************************************)
INTEGER_OBJ == "INTEGER"
BOOLEAN_OBJ == "BOOLEAN"
STRING_OBJ == "STRING"

NilObject == [kind |-> "nil", val |-> 0, addr |-> 0]
True == [kind |-> BOOLEAN_OBJ, val |-> 1, addr |-> 1]
False == [kind |-> BOOLEAN_OBJ, val |-> 0, addr |-> 2]
FirstHeapAddr == False.addr + 1

Integer(n, a) == [kind |-> INTEGER_OBJ, val |-> n, addr |-> a]
String(a) == [kind |-> STRING_OBJ, val |-> 0, addr |-> a]

(***************************************************************************)
(* Errors returned by the helpers and by Run.                              *)
(***************************************************************************)
NoError == [msg |-> "nil", op |-> 0, left |-> "", right |-> ""]
Errorf(m, o, l, r) == [msg |-> m, op |-> o, left |-> l, right |-> r]
StackOverflow == Errorf("stack overflow", 0, "", "")

(***************************************************************************)
(* Signed arithmetic of the host: results wrap to IntWidth bits, and the   *)
(* quotient truncates toward zero.                                         *)
(***************************************************************************)
Wrap(x) == ((x + 2 ^ (IntWidth - 1)) % Modulus) - 2 ^ (IntWidth - 1)
Abs(x) == IF x < 0 THEN -x ELSE x
Quot(a, b) == IF (a < 0) = (b < 0) THEN Abs(a) \div Abs(b)
              ELSE -(Abs(a) \div Abs(b))

VARIABLES instructions, contants, stack, sp, ip, pc, err, ret, heap,
          popped, executed, inspected

\* The read-eval-print loop Start: its constant pool, the number of input lines
\* still to be read, what it has written, where it stands, and what it handed to
\* the compiler and the machine in the current cycle.
VARIABLES constants, lines, out, repl, handed

replVars == <<constants, lines, out, repl, handed>>

vars == <<instructions, contants, stack, sp, ip, pc, err, ret, heap,
          popped, executed, inspected, constants, lines, out, repl, handed>>

(***************************************************************************)
(* The machine as the helpers see it: the VM's stack and sp, the next free *)
(* heap address, the value the latest pop returned (o), the error the      *)
(* latest helper returned (err) and whether the Go runtime has panicked.   *)
(***************************************************************************)
Machine == [stack |-> stack, sp |-> sp, heap |-> heap, o |-> popped,
            err |-> NoError, panic |-> FALSE]

\* push with the capacity test off by one.
pushOffByOne(m, o) ==
    IF m.panic THEN m
    ELSE IF m.sp > StackSize THEN [m EXCEPT !.err = StackOverflow]
    ELSE [m EXCEPT !.stack[m.sp] = o, !.sp = m.sp + 1, !.err = NoError]

\* vm.push: refuse on a full stack, else store at stack[sp] and advance sp.
push(m, o) ==
    IF m.panic THEN m
    ELSE IF m.sp >= StackSize THEN [m EXCEPT !.err = StackOverflow]
    ELSE [m EXCEPT !.stack[m.sp] = o, !.sp = m.sp + 1, !.err = NoError]

\* pop that also clears the slot it vacates.
popClearing(m) ==
    IF m.panic THEN m
    ELSE IF (m.sp - 1) \notin DOMAIN m.stack THEN [m EXCEPT !.panic = TRUE]
    ELSE [m EXCEPT !.o = m.stack[m.sp - 1], !.stack[m.sp - 1] = NilObject,
                   !.sp = m.sp - 1]

\* vm.pop: read stack[sp-1] (an index outside the array panics), then
\* decrement sp.  The slot itself is left as it was.
pop(m) ==
    IF m.panic THEN m
    ELSE IF (m.sp - 1) \notin DOMAIN m.stack THEN [m EXCEPT !.panic = TRUE]
    ELSE [m EXCEPT !.o = m.stack[m.sp - 1], !.sp = m.sp - 1]

\* &object.Integer{Value: n}: a fresh object at the next heap address.
NewInteger(m, n) == Integer(n, m.heap)
Alloc(m) == [m EXCEPT !.heap = m.heap + 1]

\* Type() through a nil interface is a nil dereference.
IsNil(o) == o.addr = 0

\* A boolean allocated for the occasion instead of a singleton.
nativeBoolToBooleanFresh(input) ==
    [kind |-> BOOLEAN_OBJ, val |-> IF input THEN 1 ELSE 0, addr |-> -1]

nativeBoolToBoolean(input) == IF input THEN True ELSE False

\* The switch with the operands taken in the order they were popped.
IntegerResultSwapped(op, leftValue, rightValue) ==
    CASE op = OpAdd -> Wrap(rightValue + leftValue)
      [] op = OpSub -> Wrap(rightValue - leftValue)
      [] op = OpMul -> Wrap(rightValue * leftValue)
      [] op = OpDiv -> IF leftValue = 0 THEN 0
                       ELSE Wrap(Quot(rightValue, leftValue))

\* int64 arithmetic of executeBinaryIntegerOperation's switch.
IntegerResult(op, leftValue, rightValue) ==
    CASE op = OpAdd -> Wrap(leftValue + rightValue)
      [] op = OpSub -> Wrap(leftValue - rightValue)
      [] op = OpMul -> Wrap(leftValue * rightValue)
      [] op = OpDiv -> Wrap(Quot(leftValue, rightValue))

\* The integer operation with a zero divisor turned into an error.
executeBinaryIntegerOperationGuarded(m, op, left, right) ==
    IF op \notin ArithOps
    THEN [m EXCEPT !.err = Errorf("unknown integer operator", op, "", "")]
    ELSE IF op = OpDiv /\ right.val = 0
    THEN [m EXCEPT !.err = Errorf("division by zero", op, "", "")]
    ELSE push(Alloc(m), NewInteger(m, IntegerResult(op, left.val, right.val)))

executeBinaryIntegerOperation(m, op, left, right) ==
    IF op \notin ArithOps
    THEN [m EXCEPT !.err = Errorf("unknown integer operator", op, "", "")]
    ELSE IF op = OpDiv /\ right.val = 0
    THEN [m EXCEPT !.panic = TRUE]
    ELSE push(Alloc(m), NewInteger(m, IntegerResult(op, left.val, right.val)))

executeBinaryOperation(m, op) ==
    LET m1 == pop(m)
        right == m1.o
        m2 == pop(m1)
        left == m2.o
    IN  IF m2.panic THEN m2
        ELSE IF IsNil(left) \/ IsNil(right) THEN [m2 EXCEPT !.panic = TRUE]
        ELSE IF left.kind = INTEGER_OBJ /\ right.kind = INTEGER_OBJ
        THEN executeBinaryIntegerOperation(m2, op, left, right)
        ELSE [m2 EXCEPT !.err = Errorf("unsupported types for binary operation",
                                       0, left.kind, right.kind)]

executeIntegerComparison(m, op, left, right) ==
    CASE op = OpEqual -> push(m, nativeBoolToBoolean(right.val = left.val))
      [] op = OpNotEqual -> push(m, nativeBoolToBoolean(right.val # left.val))
      [] op = OpGreaterThan -> push(m, nativeBoolToBoolean(left.val > right.val))
      [] OTHER -> [m EXCEPT !.err = Errorf("unknown operator", op, "", "")]

\* Comparison of the payloads instead of the pointers.
SameValue(a, b) == a.val = b.val

\* right == left on two interface values: the same pointer.
SameObject(a, b) == a.addr = b.addr

executeComparison(m, op) ==
    LET m1 == pop(m)
        right == m1.o
        m2 == pop(m1)
        left == m2.o
    IN  IF m2.panic THEN m2
        ELSE IF IsNil(left) THEN [m2 EXCEPT !.panic = TRUE]
        ELSE IF left.kind = INTEGER_OBJ /\ IsNil(right)
        THEN [m2 EXCEPT !.panic = TRUE]
        ELSE IF left.kind = INTEGER_OBJ /\ right.kind = INTEGER_OBJ
        THEN executeIntegerComparison(m2, op, left, right)
        ELSE CASE op = OpEqual ->
                    push(m2, nativeBoolToBoolean(SameObject(right, left)))
               [] op = OpNotEqual ->
                    push(m2, nativeBoolToBoolean(~SameObject(right, left)))
               [] OTHER ->
                    IF IsNil(right) THEN [m2 EXCEPT !.panic = TRUE]
                    ELSE [m2 EXCEPT !.err = Errorf("unknown operator", op,
                                                   left.kind, right.kind)]

\* Bang that reads its operand in place instead of popping it.
executeBangOperatorPeeking(m) ==
    IF (m.sp - 1) \notin DOMAIN m.stack THEN [m EXCEPT !.panic = TRUE]
    ELSE IF SameObject(m.stack[m.sp - 1], True) THEN push(m, False)
    ELSE IF SameObject(m.stack[m.sp - 1], False) THEN push(m, True)
    ELSE push(m, False)

\* Bang that treats every non-boolean as falsy.
executeBangOperatorTruthy(m) ==
    LET m1 == pop(m)
        operand == m1.o
    IN  IF m1.panic THEN m1
        ELSE IF SameObject(operand, True) THEN push(m1, False)
        ELSE IF SameObject(operand, False) THEN push(m1, True)
        ELSE push(m1, True)

executeBangOperator(m) ==
    LET m1 == pop(m)
        operand == m1.o
    IN  IF m1.panic THEN m1
        ELSE IF SameObject(operand, True) THEN push(m1, False)
        ELSE IF SameObject(operand, False) THEN push(m1, True)
        ELSE push(m1, False)

\* Minus without the type check.
executeMinusOperatorUnchecked(m) ==
    LET m1 == pop(m)
        operand == m1.o
    IN  IF m1.panic THEN m1
        ELSE IF IsNil(operand) THEN [m1 EXCEPT !.panic = TRUE]
        ELSE push(Alloc(m1), NewInteger(m1, Wrap(-operand.val)))

executeMinusOperator(m) ==
    LET m1 == pop(m)
        operand == m1.o
    IN  IF m1.panic THEN m1
        ELSE IF IsNil(operand) THEN [m1 EXCEPT !.panic = TRUE]
        ELSE IF operand.kind # INTEGER_OBJ
        THEN [m1 EXCEPT !.err = Errorf("unsupported type for negation",
                                       0, operand.kind, "")]
        ELSE push(Alloc(m1), NewInteger(m1, Wrap(-operand.val)))

\* code.ReadUint16: two bytes, big-endian.
ReadUint16(ins) == ins[1] * 256 + ins[2]

(***************************************************************************)
(* Instruction streams.  code.Make encodes one instruction: the opcode     *)
(* byte, followed for OpConstant by a two-byte big-endian operand.         *)
(***************************************************************************)
Make(op, operand) ==
    IF op = OpConstant THEN <<op, operand \div 256, operand % 256>> ELSE <<op>>

RECURSIVE Concat(_)
Concat(ss) == IF ss = <<>> THEN <<>> ELSE Head(ss) \o Concat(Tail(ss))

SeqsUpTo(S, n) == UNION {[1..k -> S] : k \in 0..n}

PoolSize == Len(<<INTEGER_OBJ, INTEGER_OBJ, STRING_OBJ>>)
ConstantLoads == {Make(OpConstant, i) : i \in 0..(PoolSize - 1)}
Loads == ConstantLoads \cup {Make(OpTrue, 0), Make(OpFalse, 0)}
BinaryOps == {Make(op, 0) : op \in ArithOps \cup CompareOps}
UnaryOps == {Make(OpMinus, 0), Make(OpBang, 0)}
AnyInstruction == Loads \cup BinaryOps \cup UnaryOps
                      \cup {Make(OpPop, 0), Make(OpUnhandled, 0)}

\* What the compiler emits for an expression statement with one operator.
ExpressionStatements ==
    {l \o r \o b \o Make(OpPop, 0) : l \in Loads, r \in Loads, b \in BinaryOps}
        \cup {l \o u \o Make(OpPop, 0) : l \in Loads, u \in UnaryOps}

\* StackSize loads, then up to two further instructions of any kind.
FillingStreams ==
    {Concat(f) \o Concat(t) : f \in [1..StackSize -> Loads],
                              t \in SeqsUpTo(AnyInstruction, 2)}

\* Every byte string of at most MaxCode bytes, well formed or not.
RawStreams == SeqsUpTo(Bytes, MaxCode)

\* The compiler's constant pool: two integer literals and a string literal.
Pool(a, b) == <<Integer(a, FirstHeapAddr), Integer(b, FirstHeapAddr + 1),
                String(FirstHeapAddr + 2)>>
DefaultPool == Pool(1, MinInt)

(***************************************************************************)
(* New(bytecode): the stream and pool of the bytecode, a zeroed stack of   *)
(* StackSize slots, sp = 0.  Run starts with ip = 0.                       *)
(***************************************************************************)
New(ins, pool) ==
    /\ instructions = ins
    /\ contants = pool
    /\ stack = [i \in 0..(StackSize - 1) |-> NilObject]
    /\ sp = 0
    /\ ip = 0
    /\ pc = "Run"
    /\ err = NoError
    /\ ret = NoError
    /\ heap = FirstHeapAddr + Len(pool)
    /\ popped = NilObject
    /\ executed = <<>>
    /\ inspected = NilObject

\* A machine built and run directly, as main does: no loop around it.
NoCycle == [symbolTable |-> "", constants |-> <<>>, globals |-> ""]
NotStarted ==
    /\ constants = <<>>
    /\ lines = 0
    /\ out = <<>>
    /\ repl = "none"
    /\ handed = NoCycle

Init ==
    \/ \E a \in IntRange, b \in IntRange, ins \in ExpressionStatements :
          New(ins, Pool(a, b)) /\ NotStarted
    \/ \E ins \in FillingStreams \cup RawStreams :
          New(ins, DefaultPool) /\ NotStarted

(***************************************************************************)
(* Run.  Each action is one iteration of the loop for one case of the      *)
(* switch; Iterate is what follows the helper call: a panic ends the run,  *)
(* an error makes Run return `returned`, otherwise ip++ and loop.          *)
(***************************************************************************)
Decoding(ops) ==
    /\ pc = "Run"
    /\ ip < Len(instructions)
    /\ instructions[ip + 1] \in ops

\* The loop without its ip++.
IterateWithoutAdvance(m, ipAfter, returned) ==
    /\ stack' = m.stack
    /\ sp' = m.sp
    /\ heap' = m.heap
    /\ popped' = m.o
    /\ executed' = Append(executed, instructions[ip + 1])
    /\ UNCHANGED <<instructions, contants, inspected>>
    /\ UNCHANGED replVars
    /\ IF m.panic
       THEN pc' = "panic" /\ ip' = ipAfter /\ UNCHANGED <<err, ret>>
       ELSE IF m.err # NoError
       THEN pc' = "returned" /\ ip' = ipAfter /\ err' = m.err /\ ret' = returned
       ELSE pc' = "Run" /\ ip' = ipAfter /\ err' = m.err /\ UNCHANGED ret

Iterate(m, ipAfter, returned) ==
    /\ stack' = m.stack
    /\ sp' = m.sp
    /\ heap' = m.heap
    /\ popped' = m.o
    /\ executed' = Append(executed, instructions[ip + 1])
    /\ UNCHANGED <<instructions, contants, inspected>>
    /\ UNCHANGED replVars
    /\ IF m.panic
       THEN pc' = "panic" /\ ip' = ipAfter /\ UNCHANGED <<err, ret>>
       ELSE IF m.err # NoError
       THEN pc' = "returned" /\ ip' = ipAfter /\ err' = m.err /\ ret' = returned
       ELSE pc' = "Run" /\ ip' = ipAfter + 1 /\ err' = m.err /\ UNCHANGED ret

Panicked(m) == [m EXCEPT !.panic = TRUE]

RunConstant ==
    /\ Decoding({OpConstant})
    /\ LET operand == SubSeq(instructions, ip + 2, Len(instructions))
       IN  IF Len(operand) < 2
           THEN Iterate(Panicked(Machine), ip, NoError)
           ELSE LET constIndex == ReadUint16(operand)
                IN  IF constIndex >= Len(contants)
                    THEN Iterate(Panicked(Machine), ip + 2, NoError)
                    ELSE LET m == push(Machine, contants[constIndex + 1])
                         IN  Iterate(m, ip + 2, m.err)

RunArithmetic ==
    /\ Decoding(ArithOps)
    /\ LET m == executeBinaryOperation(Machine, instructions[ip + 1])
       IN  Iterate(m, ip, NoError)

RunPop ==
    /\ Decoding({OpPop})
    /\ Iterate(pop(Machine), ip, NoError)

RunTrue ==
    /\ Decoding({OpTrue})
    /\ LET m == push(Machine, True) IN Iterate(m, ip, m.err)

RunFalse ==
    /\ Decoding({OpFalse})
    /\ LET m == push(Machine, False) IN Iterate(m, ip, m.err)

\* The comparison case returning nil on an error, as the arithmetic case does.
RunComparisonReturningNil ==
    /\ Decoding(CompareOps)
    /\ LET m == executeComparison(Machine, instructions[ip + 1])
       IN  Iterate(m, ip, NoError)

RunComparison ==
    /\ Decoding(CompareOps)
    /\ LET m == executeComparison(Machine, instructions[ip + 1])
       IN  Iterate(m, ip, m.err)

RunBang ==
    /\ Decoding({OpBang})
    /\ LET m == executeBangOperator(Machine) IN Iterate(m, ip, m.err)

RunMinus ==
    /\ Decoding({OpMinus})
    /\ LET m == executeMinusOperator(Machine) IN Iterate(m, ip, m.err)

\* No case of the switch matches: the loop goes on to the next byte.
RunOther ==
    /\ Decoding(Bytes \ HandledOps)
    /\ Iterate(Machine, ip, NoError)

\* The loop condition fails: Run returns nil.
RunEnd ==
    /\ pc = "Run"
    /\ ip >= Len(instructions)
    /\ pc' = "returned"
    /\ ret' = NoError
    /\ UNCHANGED <<instructions, contants, stack, sp, ip, err, heap, popped,
                   executed, inspected>>
    /\ UNCHANGED replVars

(***************************************************************************)
(* LastPoppedStackElement, as the callers use it: only after Run returned  *)
(* nil.  It reads stack[sp]; an index outside the array panics.            *)
(***************************************************************************)
LastPoppedStackElement ==
    /\ pc = "returned"
    /\ ret = NoError
    /\ IF sp \in DOMAIN stack
       THEN pc' = "inspected" /\ inspected' = stack[sp]
       ELSE pc' = "panic" /\ UNCHANGED inspected
    /\ UNCHANGED <<instructions, contants, stack, sp, ip, err, ret, heap,
                   popped, executed>>
    /\ UNCHANGED replVars

(***************************************************************************)
(* Start, the read-eval-print loop.  A line either has parser errors, or   *)
(* fails to compile, or compiles to a statement: a sequence of integer     *)
(* literals and opcodes.  The compiler appends each literal to the pool it *)
(* was given and emits a load of its index.                                *)
(***************************************************************************)
Lit(n) == [lit |-> TRUE, val |-> n]
Ins(op) == [lit |-> FALSE, val |-> op]

Statements ==
    { <<Lit(1), Lit(2), Ins(OpAdd), Ins(OpPop)>>,
      <<Ins(OpTrue), Lit(1), Ins(OpAdd), Ins(OpPop)>>,
      <<Ins(OpTrue), Ins(OpFalse), Ins(OpGreaterThan), Ins(OpPop)>>,
      <<Lit(1), Lit(0), Ins(OpDiv), Ins(OpPop)>>,
      <<Ins(OpFalse), Ins(OpBang), Ins(OpPop)>>,
      <<Lit(1), Ins(OpMinus), Ins(OpPop)>>,
      <<Lit(1), Ins(OpUnhandled)>>,
      <<Ins(OpUnhandled), Ins(OpPop)>>,
      <<>> }

RECURSIVE Literals(_, _)
Literals(stmt, addr) ==
    IF stmt = <<>> THEN <<>>
    ELSE IF Head(stmt).lit
    THEN <<Integer(Head(stmt).val, addr)>> \o Literals(Tail(stmt), addr + 1)
    ELSE Literals(Tail(stmt), addr)

RECURSIVE Code(_, _)
Code(stmt, index) ==
    IF stmt = <<>> THEN <<>>
    ELSE IF Head(stmt).lit
    THEN Make(OpConstant, index) \o Code(Tail(stmt), index + 1)
    ELSE Make(Head(stmt).val, 0) \o Code(Tail(stmt), index)

SymbolTable == "symbolTable"
GlobalsStore == "globals"
Handing == [symbolTable |-> SymbolTable, constants |-> constants,
            globals |-> GlobalsStore]
Written(kind, value) == [kind |-> kind, value |-> value]

\* Start before its loop: an empty pool, nothing written, no machine yet.
StartInit ==
    /\ constants = <<>>
    /\ lines \in 0..MaxLines
    /\ out = <<>>
    /\ repl = "prompt"
    /\ handed = NoCycle
    /\ instructions = <<>>
    /\ contants = <<>>
    /\ stack = [i \in 0..(StackSize - 1) |-> NilObject]
    /\ sp = 0
    /\ ip = 0
    /\ pc = "idle"
    /\ err = NoError
    /\ ret = NoError
    /\ heap = FirstHeapAddr
    /\ popped = NilObject
    /\ executed = <<>>
    /\ inspected = NilObject

machineVars == <<instructions, contants, stack, sp, ip, pc, err, ret, heap,
                 popped, executed, inspected>>

\* The line has parser errors: they are written and the loop continues.
ReplParserErrors ==
    /\ repl = "prompt"
    /\ lines > 0
    /\ lines' = lines - 1
    /\ out' = Append(out, Written("parser errors", NilObject))
    /\ UNCHANGED <<constants, repl, handed>>
    /\ UNCHANGED machineVars

\* Compile fails: the message is written, the pool of the loop is not
\* reassigned, and the loop continues.
ReplCompilationFailed ==
    /\ repl = "prompt"
    /\ lines > 0
    /\ lines' = lines - 1
    /\ handed' = Handing
    /\ out' = Append(out, Written("Compilation failed", NilObject))
    /\ UNCHANGED <<constants, repl>>
    /\ UNCHANGED machineVars

\* The loop forgetting the earlier pool: only this line's literals are kept.
ReplCompiledDroppingPool ==
    /\ repl = "prompt"
    /\ lines > 0
    /\ \E stmt \in Statements :
          LET pool == Literals(stmt, heap)
          IN  /\ lines' = lines - 1
              /\ handed' = Handing
              /\ constants' = pool
              /\ repl' = "running"
              /\ instructions' = Code(stmt, 0)
              /\ contants' = pool
              /\ stack' = [i \in 0..(StackSize - 1) |-> NilObject]
              /\ sp' = 0
              /\ ip' = 0
              /\ pc' = "Run"
              /\ err' = NoError
              /\ ret' = NoError
              /\ heap' = heap + Len(pool)
              /\ popped' = NilObject
              /\ executed' = <<>>
              /\ inspected' = NilObject
              /\ UNCHANGED out

\* The line compiles: the loop keeps the grown pool and builds a machine
\* for the bytecode, which Run then executes.
ReplCompiled ==
    /\ repl = "prompt"
    /\ lines > 0
    /\ \E stmt \in Statements :
          LET pool == constants \o Literals(stmt, heap)
          IN  /\ lines' = lines - 1
              /\ handed' = Handing
              /\ constants' = pool
              /\ repl' = "running"
              /\ instructions' = Code(stmt, Len(constants))
              /\ contants' = pool
              /\ stack' = [i \in 0..(StackSize - 1) |-> NilObject]
              /\ sp' = 0
              /\ ip' = 0
              /\ pc' = "Run"
              /\ err' = NoError
              /\ ret' = NoError
              /\ heap' = heap + Len(pool) - Len(constants)
              /\ popped' = NilObject
              /\ executed' = <<>>
              /\ inspected' = NilObject
              /\ UNCHANGED out

\* Run returned an error: the message is written and the loop continues.
ReplRunFailed ==
    /\ repl = "running"
    /\ pc = "returned"
    /\ ret # NoError
    /\ out' = Append(out, Written("executing bytecode failed", NilObject))
    /\ repl' = "prompt"
    /\ UNCHANGED <<constants, lines, handed>>
    /\ UNCHANGED machineVars

\* Run returned nil and LastPoppedStackElement returned: Inspect() of the
\* value is written.  Inspect through a nil interface is a nil dereference.
ReplWriteResult ==
    /\ repl = "running"
    /\ pc = "inspected"
    /\ IF IsNil(inspected)
       THEN pc' = "panic" /\ UNCHANGED <<out, repl>>
       ELSE /\ out' = Append(out, Written("result", inspected))
            /\ repl' = "prompt"
            /\ UNCHANGED pc
    /\ UNCHANGED <<constants, lines, handed>>
    /\ UNCHANGED <<instructions, contants, stack, sp, ip, err, ret, heap,
                   popped, executed, inspected>>

\* The scanner has no more input: Start returns.
ReplEnd ==
    /\ repl = "prompt"
    /\ lines = 0
    /\ repl' = "exited"
    /\ UNCHANGED <<constants, lines, out, handed>>
    /\ UNCHANGED machineVars

ReplNext ==
    \/ ReplParserErrors
    \/ ReplCompilationFailed
    \/ ReplCompiled
    \/ RunConstant
    \/ RunArithmetic
    \/ RunPop
    \/ RunTrue
    \/ RunFalse
    \/ RunComparison
    \/ RunBang
    \/ RunMinus
    \/ RunOther
    \/ RunEnd
    \/ LastPoppedStackElement
    \/ ReplRunFailed
    \/ ReplWriteResult
    \/ ReplEnd

ReplSpec == StartInit /\ [][ReplNext]_vars

Next ==
    \/ RunConstant
    \/ RunArithmetic
    \/ RunPop
    \/ RunTrue
    \/ RunFalse
    \/ RunComparison
    \/ RunBang
    \/ RunMinus
    \/ RunOther
    \/ RunEnd
    \/ LastPoppedStackElement

\* Run is an ordinary loop of a running thread: it keeps taking steps.  Whether
\* it ends does not depend on the integers in the pool, so the streams are run
\* over one pool.
StreamInit ==
    \E ins \in FillingStreams \cup RawStreams : New(ins, DefaultPool) /\ NotStarted
FairSpec == StreamInit /\ [][Next]_vars /\ WF_vars(Next)

Spec == Init /\ [][Next]_vars

(***************************************************************************)
(* Vocabulary of the properties.  Before an iteration, Op is the opcode    *)
(* about to be decoded, Right the value pushed last and Left the one       *)
(* pushed before it.                                                       *)
(***************************************************************************)
Op == instructions[ip + 1]
Right == stack[sp - 1]
Left == stack[sp - 2]
Top == stack[sp - 1]
BothInteger == Left.kind = INTEGER_OBJ /\ Right.kind = INTEGER_OBJ
LastExecuted == executed[Len(executed)]
Ran(ops) == executed # <<>> /\ LastExecuted \in ops

\* r is x reduced to the signed IntWidth-bit range.
WrapsTo(x, r) == r \in IntRange /\ (x - r) % Modulus = 0
\* q is a / b rounded toward zero.
TruncatedQuotient(a, b, q) ==
    /\ Abs(q) * Abs(b) <= Abs(a)
    /\ Abs(a) < (Abs(q) + 1) * Abs(b)
    /\ (q > 0 => (a > 0) = (b > 0))
    /\ (q < 0 => (a > 0) # (b > 0))
\* The singleton that stands for a truth value.
Singleton(t) == IF t THEN True ELSE False

\* Once Run has returned or the process has panicked, nothing more executes.
NothingFurther ==
    pc \in {"returned", "inspected", "panic"} =>
        /\ executed' = executed
        /\ UNCHANGED <<stack, sp, ip, ret, instructions, contants>>

\* C1: a binary arithmetic opcode whose operands are not both Integer makes
\* Run return a type error (not success) and execute nothing further.
C1_ArithmeticTypeErrorReturned ==
    [][/\ (Decoding(ArithOps) /\ sp >= 2 /\ ~BothInteger) =>
              /\ pc' = "returned"
              /\ ret' # NoError
              /\ ret'.msg = "unsupported types for binary operation"
       /\ NothingFurther]_vars

\* C2 as stated: with Integers a (pushed first) and b (pushed last), add,
\* subtract and multiply leave a+b, a-b, a*b reduced to the signed range on
\* top of the stack, and divide with b # 0 leaves a/b rounded toward zero.
C2_QuotientIsExact ==
    [][(Decoding(ArithOps) /\ sp >= 2 /\ BothInteger
            /\ ~(Op = OpDiv /\ Right.val = 0)) =>
          LET a == Left.val
              b == Right.val
              r == stack'[sp' - 1]
          IN  /\ pc' = "Run"
              /\ sp' = sp - 1
              /\ r.kind = INTEGER_OBJ
              /\ Op = OpAdd => WrapsTo(a + b, r.val)
              /\ Op = OpSub => WrapsTo(a - b, r.val)
              /\ Op = OpMul => WrapsTo(a * b, r.val)
              /\ Op = OpDiv => TruncatedQuotient(a, b, r.val)]_vars

\* C2 amended: as above, but the quotient rounded toward zero is reduced to
\* the signed range like the other three results (MinInt / -1 = MinInt).
C2_ArithmeticWraps ==
    [][(Decoding(ArithOps) /\ sp >= 2 /\ BothInteger
            /\ ~(Op = OpDiv /\ Right.val = 0)) =>
          LET a == Left.val
              b == Right.val
              r == stack'[sp' - 1]
          IN  /\ pc' = "Run"
              /\ sp' = sp - 1
              /\ r.kind = INTEGER_OBJ
              /\ Op = OpAdd => WrapsTo(a + b, r.val)
              /\ Op = OpSub => WrapsTo(a - b, r.val)
              /\ Op = OpMul => WrapsTo(a * b, r.val)
              /\ Op = OpDiv =>
                    \E q \in (MinInt - 1)..(MaxInt + 1) :
                        TruncatedQuotient(a, b, q) /\ WrapsTo(q, r.val)]_vars

\* MinInt / -1 was executed and left MinInt on the stack.
C2_Witness ==
    /\ pc = "Run"
    /\ Ran({OpDiv})
    /\ contants[1].val = MinInt
    /\ contants[2].val = -1
    /\ sp = 1
    /\ stack[0].kind = INTEGER_OBJ
    /\ stack[0].val = MinInt
    /\ stack[0].addr >= FirstHeapAddr + Len(contants)

\* C3: with Integers a (pushed first) and b (pushed last), equal, not-equal
\* and greater-than push the truth value of a = b, a # b, a > b, and what is
\* pushed is the singleton True or False itself.
C3_IntegerComparison ==
    [][(Decoding(CompareOps) /\ sp >= 2 /\ BothInteger) =>
          LET a == Left.val
              b == Right.val
              r == stack'[sp' - 1]
          IN  /\ pc' = "Run"
              /\ sp' = sp - 1
              /\ r \in {True, False}
              /\ Op = OpEqual => r = Singleton(a = b)
              /\ Op = OpNotEqual => r = Singleton(a # b)
              /\ Op = OpGreaterThan => r = Singleton(a > b)]_vars

\* Two different integers were compared with greater-than, the larger one
\* pushed first, and the singleton True is on the stack.
C3_Witness ==
    /\ pc = "Run"
    /\ Ran({OpGreaterThan})
    /\ contants[1].val > contants[2].val
    /\ instructions = Make(OpConstant, 0) \o Make(OpConstant, 1)
                          \o Make(OpGreaterThan, 0) \o Make(OpPop, 0)
    /\ sp = 1
    /\ stack[0] = True

\* C4: when the operands are not both Integer, equal and not-equal compare
\* the identity of the two values: equal pushes True on (True, True) and on
\* (False, False), False on (True, False), and a boolean never compares
\* equal to an integer.
C4_IdentityComparison ==
    [][(Decoding({OpEqual, OpNotEqual}) /\ sp >= 2 /\ ~BothInteger) =>
          LET r == stack'[sp' - 1]
              same == Left = Right
          IN  /\ pc' = "Run"
              /\ sp' = sp - 1
              /\ Op = OpEqual => r = Singleton(same)
              /\ Op = OpNotEqual => r = Singleton(~same)
              /\ (Left = True /\ Right = True) => same
              /\ (Left = False /\ Right = False) => same
              /\ (Left = True /\ Right = False) => ~same
              /\ ({Left.kind, Right.kind} = {BOOLEAN_OBJ, INTEGER_OBJ}) => ~same]_vars

\* The integer constant 1 was compared for equality with True, and False is
\* on the stack.
C4_Witness ==
    /\ pc = "Run"
    /\ Ran({OpEqual})
    /\ contants[1].val = 1
    /\ instructions = Make(OpConstant, 0) \o Make(OpTrue, 0)
                          \o Make(OpEqual, 0) \o Make(OpPop, 0)
    /\ sp = 1
    /\ stack[0] = False

\* C5: greater-than on operands that are not both Integer makes Run return
\* an error naming the operator and both operand kinds; no result is pushed
\* and nothing further executes.
C5_GreaterThanTypeError ==
    [][/\ (Decoding({OpGreaterThan}) /\ sp >= 2 /\ ~BothInteger) =>
              /\ pc' = "returned"
              /\ ret' = Errorf("unknown operator", OpGreaterThan,
                               Left.kind, Right.kind)
              /\ sp' = sp - 2
              /\ stack' = stack
       /\ NothingFurther]_vars

\* Greater-than failed on two booleans with an instruction still to run.
C5_Witness ==
    /\ pc = "returned"
    /\ Ran({OpGreaterThan})
    /\ ret.left = BOOLEAN_OBJ
    /\ ret.right = BOOLEAN_OBJ
    /\ sp = 0
    /\ ip + 1 < Len(instructions)

\* C6: bang on a non-empty stack never fails; it replaces the top value by
\* False if it is True, by True if it is False, and by False otherwise.
C6_Bang ==
    [][(Decoding({OpBang}) /\ sp >= 1) =>
          /\ pc' = "Run"
          /\ err' = NoError
          /\ sp' = sp
          /\ stack' = [stack EXCEPT ![sp - 1] =
                          IF Top = True THEN False
                          ELSE IF Top = False THEN True
                          ELSE False]]_vars

\* Bang was applied to the integer constant 0 and left False.
C6_Witness ==
    /\ pc = "Run"
    /\ Ran({OpBang})
    /\ contants[1].val = 0
    /\ instructions = Make(OpConstant, 0) \o Make(OpBang, 0) \o Make(OpPop, 0)
    /\ sp = 1
    /\ stack[0] = False

\* C7: unary minus replaces an Integer n on top of the stack by -n reduced
\* to the signed range (MinInt maps to itself); on any other operand Run
\* returns a type error and pushes nothing.
C7_Minus ==
    [][(Decoding({OpMinus}) /\ sp >= 1) =>
          IF Top.kind = INTEGER_OBJ
          THEN /\ pc' = "Run"
               /\ sp' = sp
               /\ stack'[sp - 1].kind = INTEGER_OBJ
               /\ WrapsTo(-Top.val, stack'[sp - 1].val)
               /\ Top.val = MinInt => stack'[sp - 1].val = MinInt
               /\ \A i \in DOMAIN stack : i # sp - 1 => stack'[i] = stack[i]
          ELSE /\ pc' = "returned"
               /\ ret' = Errorf("unsupported type for negation", 0, Top.kind, "")
               /\ sp' = sp - 1
               /\ stack' = stack]_vars

\* MinInt was negated and is still MinInt.
C7_Witness ==
    /\ pc = "Run"
    /\ Ran({OpMinus})
    /\ contants[1].val = MinInt
    /\ instructions = Make(OpConstant, 0) \o Make(OpMinus, 0) \o Make(OpPop, 0)
    /\ sp = 1
    /\ stack[0].val = MinInt
    /\ stack[0].addr # contants[1].addr

\* C8: a push attempted with sp = StackSize (load-constant, load-true or
\* load-false on a full stack) makes Run return a stack-overflow error,
\* leaves sp and every stack slot unchanged, and nothing further executes.
C8_StackOverflow ==
    [][/\ (/\ Decoding({OpConstant, OpTrue, OpFalse})
           /\ sp = StackSize
           /\ Op = OpConstant =>
                 /\ ip + 3 <= Len(instructions)
                 /\ ReadUint16(SubSeq(instructions, ip + 2, ip + 3))
                        < Len(contants)) =>
              /\ pc' = "returned"
              /\ ret' = StackOverflow
              /\ sp' = sp
              /\ stack' = stack
       /\ NothingFurther]_vars

\* A load-constant overflowed the full stack with an instruction still to
\* run.
C8_Witness ==
    /\ pc = "returned"
    /\ Ran({OpConstant})
    /\ ret = StackOverflow
    /\ sp = StackSize
    /\ ip + 1 < Len(instructions)

\* C9: when Run has returned nil and the last instruction it executed was a
\* pop that discarded V, LastPoppedStackElement returns exactly V.
C9_LastPopped ==
    (pc = "inspected" /\ Ran({OpPop})) => inspected = popped

\* The result of an addition was popped last and then inspected.
C9_Witness ==
    /\ pc = "inspected"
    /\ Ran({OpPop})
    /\ Len(executed) = 4
    /\ executed[3] = OpAdd
    /\ inspected.kind = INTEGER_OBJ
    /\ inspected.addr >= FirstHeapAddr + Len(contants)

\* C10: after a successful Run in which nothing was popped, the index that
\* LastPoppedStackElement reads is inside the stack array.
NoPopOccurred ==
    \A i \in DOMAIN executed : executed[i] \in {OpConstant, OpTrue, OpFalse}
C10_InspectInBounds ==
    (pc = "returned" /\ ret = NoError /\ NoPopOccurred) => sp \in DOMAIN stack

\* Opcodes whose handler touches the stack only through push and pop and
\* does nothing else that can fault.
StackOnlyOps == ({OpPop, OpTrue, OpFalse, OpBang, OpMinus} \cup CompareOps
                    \cup ArithOps) \ {OpDiv}
UnaryPoppingOps == {OpPop, OpBang, OpMinus}
BinaryPoppingOps == ArithOps \cup CompareOps
Underflowing ==
    \/ Decoding(UnaryPoppingOps) /\ sp = 0
    \/ Decoding(BinaryPoppingOps) /\ sp < 2

\* C11: 0 <= sp <= StackSize in every state reachable by executing any
\* instruction stream, and every stack access of push and pop is inside the
\* array, so no instruction that only pushes and pops ever faults.
C11_StackAccessInBounds ==
    [][/\ sp' \in 0..StackSize
       /\ Decoding(StackOnlyOps) => pc' # "panic"]_vars

\* C12: an instruction that needs more operands than the stack holds makes
\* Run return a reported error, never a fault.
C12_UnderflowReported ==
    [][Underflowing => (pc' = "returned" /\ ret' # NoError)]_vars

\* C13: decoding a byte that is none of the handled opcodes makes Run return
\* a reported internal error instead of going on to the next byte.
C13_UnknownOpcodeReported ==
    [][Decoding(Bytes \ HandledOps) => (pc' = "returned" /\ ret' # NoError)]_vars

\* C17: divide with two Integer operands and a zero divisor is not guarded:
\* both operands are popped, nothing is pushed, Run returns no error value
\* and execution ends in the host's integer-division fault.
C17_DivisionByZeroFaults ==
    [][(Decoding({OpDiv}) /\ sp >= 2 /\ BothInteger /\ Right.val = 0) =>
          /\ pc' = "panic"
          /\ sp' = sp - 2
          /\ stack' = stack
          /\ ret' = NoError
          /\ err' = NoError]_vars

\* An integer was divided by the constant 0 and the run ended in a fault.
C17_Witness ==
    /\ pc = "panic"
    /\ Ran({OpDiv})
    /\ Len(executed) = 3
    /\ contants[2].val = 0
    /\ instructions = Make(OpConstant, 0) \o Make(OpConstant, 1)
                          \o Make(OpDiv, 0) \o Make(OpPop, 0)
    /\ sp = 0

\* Operand bytes that follow an opcode.
OperandWidth(op) == IF op = OpConstant THEN 2 ELSE 0

\* C18: Run terminates: ip never moves backwards, every completed iteration
\* advances it by 1 plus the operand width of the opcode decoded, Run
\* returns only at the end of the stream or at the first error, and every
\* run eventually leaves the loop.
C18_RunTerminates ==
    /\ [][/\ ip' >= ip
          /\ (Decoding(Bytes) /\ pc' = "Run") =>
                 ip' = ip + 1 + OperandWidth(Op)
          /\ (pc = "Run" /\ pc' = "returned") =>
                 (ip >= Len(instructions) \/ err' # NoError)
          /\ pc # "Run" => pc' # "Run"]_vars
    /\ <>(pc # "Run")

\* A load-constant and some one-byte instructions ran, ending with a pop, and
\* Run returned at the end of the stream.
C18_Witness ==
    /\ pc = "returned"
    /\ Len(executed) >= 3
    /\ executed[1] = OpConstant
    /\ Ran({OpPop})
    /\ ip = Len(instructions)
    /\ ip = Len(executed) + 2
    /\ ret = NoError

\* C19: a stack-overflow error comes only from load-constant, load-true and
\* load-false; the result push of an operator never fails.
C19_OnlyLoadsOverflow ==
    (err = StackOverflow \/ ret = StackOverflow) =>
        Ran({OpConstant, OpTrue, OpFalse})

\* On a full stack, bang popped its operand and pushed its result.
C19_Witness ==
    /\ pc = "Run"
    /\ Ran({OpBang})
    /\ sp = StackSize
    /\ err = NoError
    /\ stack[sp - 1] \in {True, False}

\* Stack slots an instruction may rewrite, given sp before it runs.
Operands(op) ==
    IF op \in BinaryPoppingOps THEN 2
    ELSE IF op \in {OpBang, OpMinus} THEN 1
    ELSE 0
SpChange(op) ==
    IF op \in {OpConstant, OpTrue, OpFalse} THEN 1
    ELSE IF op \in BinaryPoppingOps \cup {OpPop} THEN -1
    ELSE 0

\* C20: a successfully executed instruction changes sp by +1 (loads), -1
\* (pop, binary and comparison operators) or 0 (bang, minus), and leaves
\* unchanged every stack slot below its operands, the constant pool and the
\* instruction stream; pop rewrites no slot at all.
C20_FrameEffect ==
    [][(Decoding(HandledOps) /\ pc' = "Run") =>
          /\ sp' = sp + SpChange(Op)
          /\ \A i \in DOMAIN stack : i < sp - Operands(Op) => stack'[i] = stack[i]
          /\ Op = OpPop => stack' = stack
          /\ contants' = contants
          /\ instructions' = instructions]_vars

\* A pop discarded the result of an operator and another instruction is
\* still to run.
C20_Witness ==
    /\ pc = "Run"
    /\ Ran({OpPop})
    /\ Len(executed) >= 3
    /\ sp = StackSize - 1
    /\ stack[sp] # NilObject
    /\ ip < Len(instructions)

LastWritten == out'[Len(out')]

\* C14: in every cycle of the loop, if the execution hit an operator or
\* stack error the cycle writes the execution-failure message and no result
\* value; a result value is written only when the execution hit no error.
C14_FailedRunWritesNoResult ==
    [][(repl = "running" /\ out' # out) =>
          /\ err # NoError => LastWritten.kind = "executing bytecode failed"
          /\ LastWritten.kind = "result" => err = NoError]_vars

\* C15: whatever stage fails, the loop writes the error and goes on to the
\* next line: the process never dies in a fault and Start returns only when
\* the input is exhausted.
C15_LoopSurvivesEveryFailure ==
    /\ pc # "panic"
    /\ repl = "exited" => lines = 0

IsPrefix(s, t) == Len(s) <= Len(t) /\ SubSeq(t, 1, Len(s)) = s

\* C16: across the cycles, the pool the loop carries never shrinks and every
\* index issued earlier still names the same value; each cycle hands the
\* compiler that pool and the one symbol table, and builds its machine over
\* the grown pool and the one global store.
C16_PoolOnlyGrows ==
    [][/\ IsPrefix(constants, constants')
       /\ handed' # handed =>
             /\ handed'.symbolTable = SymbolTable
             /\ handed'.globals = GlobalsStore
             /\ handed'.constants = constants
       /\ contants' # contants =>
             (IsPrefix(constants, contants') /\ contants' = constants')]_vars

\* After a cycle that wrote a result and one with parser errors or a failed
\* compile, a third cycle runs over a pool that still starts with the
\* literals of the first.
C16_Witness ==
    /\ repl = "running"
    /\ Len(out) = 2
    /\ out[1].kind = "result"
    /\ out[2].kind \in {"parser errors", "Compilation failed"}
    /\ Len(contants) >= 2
    /\ instructions[1] = OpConstant
    /\ ReadUint16(SubSeq(instructions, 2, 3)) >= 1

====
